---------------------------- MODULE Spec2Model ----------------------------
(* A model of django-profiles: the three request handlers of               *)
(* profiles/views.py (create_profile, edit_profile, profile_detail) over   *)
(* a table of users, a table of profile rows and the AUTH_PROFILE_MODULE   *)
(* setting.                                                                *)
(*                                                                         *)
(* Spec            each request is handled to completion (one action per   *)
(*                 handler).                                               *)
(* SpecInterleaved the handlers that save are split at the database        *)
(*                 boundary between validation and save, so that requests  *)
(*                 served by different workers interleave.                 *)
EXTENDS Integers, FiniteSets, Sequences, TLC

(***************************************************************************)
(* Bounds                                                                  *)
(***************************************************************************)
MaxUsers == 2
MaxInflight == 2

(***************************************************************************)
(* Data                                                                    *)
(***************************************************************************)
\* auth.User rows; a user's username is modelled by the user's number.
Users == 1..MaxUsers
\* request.user of a request that carries no login.
AnonymousUser == 0
\* Usernames a URL can carry: those of the users and one that no user has.
Usernames == 1..(MaxUsers + 1)

\* Values of the profile model's scalar field, and the blank value.
Values == {"a", "b"}
Blank == ""
\* Values of the profile model's many-to-many field.
GroupChoices == {{}, {"g"}}

\* The profile model's fields (opts.fields + opts.many_to_many).
ModelFields == {"id", "user", "bio", "groups"}

\* "No object" (Python None) for a profile reference.
NoObj == [id |-> 0, user |-> 0, bio |-> Blank, groups |-> {}]

\* Values of settings.AUTH_PROFILE_MODULE: naming an installed model, not
\* set, or naming no installed model.
Settings == {"valid", "missing", "unresolvable"}

\* request.POST: the submitted keys. A client may submit a "user" key.
Payloads == [bio : Values \cup {Blank}, groups : GroupChoices, user : Users \cup {AnonymousUser}]
EmptyPOST == [bio |-> Blank, groups |-> {}, user |-> AnonymousUser]

\* URLs: a route name and the username it is parameterised by (0: none).
URL(name, username) == [name |-> name, username |-> username]
NoURL == URL("None", 0)
CustomURL == URL("custom_success_url", 0)
SuccessUrls == {NoURL, CustomURL}

\* Form classes: the fields they expose and whether they have save_m2m().
FormClass(name, fields, m2m) == [name |-> name, fields |-> fields, save_m2m |-> m2m]
NoFormClass == FormClass("None", {}, FALSE)

\* Form instances.
NoForm == [bound |-> FALSE, fields |-> {}, data |-> EmptyPOST, errors |-> {}, initial |-> NoObj, save_m2m |-> FALSE]

VARIABLES
  AUTH_PROFILE_MODULE, \* the setting (fixed for the life of the process)
  userUnique,          \* whether the profile model declares user unique
  profiles,            \* the rows of the profile table
  before,              \* the rows when the last step started
  request,             \* the request the last step served
  response,            \* what the last step answered
  inflight             \* SpecInterleaved: requests between validation and save

vars == <<AUTH_PROFILE_MODULE, userUnique, profiles, before, request, response, inflight>>


(***************************************************************************)
(* Responses                                                               *)
(***************************************************************************)
\* resolved records whether the request invoked get_profile_model().
Response(kind, url, template, form, profile, exc, resolved) ==
  [kind |-> kind, url |-> url, template |-> template, form |-> form, profile |-> profile, exc |-> exc, resolved |-> resolved]

NoResponse == Response("none", NoURL, "None", NoForm, NoObj, "None", FALSE)

HttpResponseRedirect(url, resolved) == Response("redirect", url, "None", NoForm, NoObj, "None", resolved)

render_to_response(template, form, profile, resolved) == Response("render", NoURL, template, form, profile, "None", resolved)

\* An exception leaving the view; Http404 is the framework's not-found answer.
Raise(exc, resolved) == Response(IF exc = "Http404" THEN "Http404" ELSE "exception", NoURL, "None", NoForm, NoObj, exc, resolved)

reverse(name, username) == URL(name, username)

(***************************************************************************)
(* Framework: users, profile lookup, forms                                 *)
(***************************************************************************)
Found(obj) == [exc |-> "None", obj |-> obj]
Failed(exc) == [exc |-> exc, obj |-> NoObj]

\* User.get_profile(): the row of the configured profile model whose user
\* is this user.
get_profile(user, profs) ==
  IF AUTH_PROFILE_MODULE # "valid" THEN Failed("SiteProfileNotAvailable")
  ELSE LET rows == {p \in profs : p.user = user}
       IN IF rows = {} THEN Failed("ObjectDoesNotExist")
          ELSE IF Cardinality(rows) = 1 THEN Found(CHOOSE p \in rows : TRUE)
          ELSE Failed("MultipleObjectsReturned")

\* profiles.utils.get_profile_model(): the model the setting names.
get_profile_model ==
  IF AUTH_PROFILE_MODULE = "valid" THEN [exc |-> "None", fields |-> ModelFields]
  ELSE [exc |-> "SiteProfileNotAvailable", fields |-> {}]

\* get_object_or_404(User, username=username)
get_user_or_404(username) ==
  IF username \in Users THEN [exc |-> "None", user |-> username]
  ELSE [exc |-> "Http404", user |-> AnonymousUser]

\* form_for_model / form_for_instance: a form class over the model's
\* editable fields, with save_m2m().
form_for_model(fields) == FormClass("form_for_model", fields \ {"id"}, TRUE)
form_for_instance(fields) == FormClass("form_for_instance", fields \ {"id"}, TRUE)

\* del form_class.base_fields['user']
del_base_field(form_class, name) == [form_class EXCEPT !.fields = @ \ {name}]

\* profiles.utils.get_profile_form: a ModelForm over the profile model
\* that excludes the user field.
get_profile_form(fields) == FormClass("_ProfileForm", (fields \ {"id"}) \ {"user"}, TRUE)

\* The form classes a caller passes as form_class: none, the ModelForm of
\* get_profile_form, or a form of its own that has no save_m2m().
CustomForms == {get_profile_form(ModelFields), FormClass("custom_no_m2m", {"bio", "groups"}, FALSE)}
FormClasses == {NoFormClass} \cup CustomForms

\* The submitted values a form reads: those of its own fields.
cleaned(form_class, POST) ==
  [bio |-> IF "bio" \in form_class.fields THEN POST.bio ELSE Blank,
   groups |-> IF "groups" \in form_class.fields THEN POST.groups ELSE {},
   user |-> IF "user" \in form_class.fields THEN POST.user ELSE AnonymousUser]

\* Validation: bio and user are required fields.
field_errors(form_class, data) ==
  {f \in form_class.fields \cap {"bio", "user"} : (f = "bio" /\ data.bio = Blank) \/ (f = "user" /\ data.user = AnonymousUser)}

\* form_class(request.POST, initial=...)
bound_form(form_class, POST, initial) ==
  [bound |-> TRUE, fields |-> form_class.fields, data |-> cleaned(form_class, POST),
   errors |-> field_errors(form_class, cleaned(form_class, POST)), initial |-> initial,
   save_m2m |-> form_class.save_m2m]

\* Mutant: the GET branch binds the form to the (empty) submitted data.
unbound_form_bound_to_post(form_class) == bound_form(form_class, EmptyPOST, NoObj)

\* form_class()
unbound_form(form_class) ==
  [bound |-> FALSE, fields |-> form_class.fields, data |-> EmptyPOST, errors |-> {}, initial |-> NoObj,
   save_m2m |-> form_class.save_m2m]

\* Mutant: a bound form passes whatever its errors.
is_valid_unchecked(form) == form.bound
is_valid(form) == form.bound /\ form.errors = {}

\* The primary key the database gives the next inserted row.
next_pk(profs) == Cardinality(profs) + 1

\* Model.save() of an unsaved object: an INSERT, refused when it breaks the
\* unique constraint on user (if the model declares one).
insert(obj, profs) ==
  IF userUnique /\ \E p \in profs : p.user = obj.user
  THEN [exc |-> "IntegrityError", obj |-> obj, profiles |-> profs]
  ELSE [exc |-> "None", obj |-> [obj EXCEPT !.id = next_pk(profs)],
        profiles |-> profs \cup {[obj EXCEPT !.id = next_pk(profs)]}]

\* Model.save() of a saved object: an UPDATE of the row with its key.
update(obj, profs) == {p \in profs : p.id # obj.id} \cup {obj}

\* login_required: views run only for a logged-in user.
is_authenticated(user) == user # AnonymousUser
redirect_to_login == HttpResponseRedirect(URL("login", 0), FALSE)

(***************************************************************************)
(* views.create_profile                                                    *)
(***************************************************************************)
Proceed(form, success_url, resolved) == [done |-> FALSE, response |-> NoResponse, form |-> form, success_url |-> success_url, resolved |-> resolved]
Done(resp) == [done |-> TRUE, response |-> resp, form |-> NoForm, success_url |-> NoURL, resolved |-> resp.resolved]

\* Mutant: the model is resolved only when no form class was passed.
resolves_only_without_form_class(req) == req.form_class = NoFormClass

\* Line 71: get_profile_model() is called before, and outside, the test of
\* form_class on line 75: for every request that reaches it.
resolves_model(req) == TRUE

\* Lines 66-80 and 87-91: everything up to the save. Done(answer) when the
\* request ends here, Proceed(form, success_url) when the form is valid.
create_profile_form(req, profs) ==
  IF ~is_authenticated(req.user) THEN Done(redirect_to_login)
  ELSE LET got == get_profile(req.user, profs)
       IN IF got.exc = "None" THEN Done(HttpResponseRedirect(reverse("profiles_edit_profile", 0), FALSE))
          ELSE IF got.exc # "ObjectDoesNotExist" THEN Done(Raise(got.exc, FALSE))
          ELSE LET resolved == resolves_model(req)
                   profile_model == get_profile_model
                   success_url == IF req.success_url = NoURL
                                  THEN reverse("profiles_profile_detail", req.user)
                                  ELSE req.success_url
                   form_class == IF req.form_class = NoFormClass
                                 THEN del_base_field(form_for_model(profile_model.fields), "user")
                                 ELSE req.form_class
               IN IF resolved /\ profile_model.exc # "None" THEN Done(Raise(profile_model.exc, resolved))
                  ELSE IF req.method = "POST"
                  THEN LET form == bound_form(form_class, req.POST, NoObj)
                       IN IF is_valid(form) THEN Proceed(form, success_url, resolved)
                          ELSE Done(render_to_response("profiles/create_profile.html", form, NoObj, resolved))
                  ELSE Done(render_to_response("profiles/create_profile.html", unbound_form(form_class), NoObj, resolved))

\* Mutant: line 82 (profile_obj.user = request.user) is missing.
create_profile_save_form_user(req, form, success_url, resolved, profs) ==
  LET unsaved == [id |-> 0, user |-> form.data.user, bio |-> form.data.bio, groups |-> {}]
      saved == insert(unsaved, profs)
      with_m2m == IF form.save_m2m THEN [saved.obj EXCEPT !.groups = form.data.groups] ELSE saved.obj
  IN IF saved.exc # "None" THEN [response |-> Raise(saved.exc, resolved), profiles |-> profs]
     ELSE [response |-> HttpResponseRedirect(success_url, resolved),
           profiles |-> update(with_m2m, saved.profiles)]

\* Lines 81-86: save the new profile for request.user and redirect.
create_profile_save(req, form, success_url, resolved, profs) ==
  LET unsaved == [id |-> 0, user |-> form.data.user, bio |-> form.data.bio, groups |-> {}]
      profile_obj == [unsaved EXCEPT !.user = req.user]
      saved == insert(profile_obj, profs)
      with_m2m == IF form.save_m2m THEN [saved.obj EXCEPT !.groups = form.data.groups] ELSE saved.obj
  IN IF saved.exc # "None" THEN [response |-> Raise(saved.exc, resolved), profiles |-> profs]
     ELSE [response |-> HttpResponseRedirect(success_url, resolved),
           profiles |-> update(with_m2m, saved.profiles)]

\* Mutant: the existing-profile check of lines 66-70 finds nothing.
create_profile_without_check(req, profs) ==
  LET pre == create_profile_form(req, {})
  IN IF pre.done THEN [response |-> pre.response, profiles |-> profs]
     ELSE create_profile_save(req, pre.form, pre.success_url, pre.resolved, profs)

\* The whole view.
create_profile(req, profs) ==
  LET pre == create_profile_form(req, profs)
  IN IF pre.done THEN [response |-> pre.response, profiles |-> profs]
     ELSE create_profile_save(req, pre.form, pre.success_url, pre.resolved, profs)

(***************************************************************************)
(* views.edit_profile                                                      *)
(***************************************************************************)
get_initial_data(profile_obj) == [f \in ModelFields |-> profile_obj[f]]

ProceedEdit(form, success_url, obj) == [done |-> FALSE, response |-> NoResponse, form |-> form, success_url |-> success_url, profile_obj |-> obj]
DoneEdit(resp) == [done |-> TRUE, response |-> resp, form |-> NoForm, success_url |-> NoURL, profile_obj |-> NoObj]

\* Lines 146-158 and 161-166: everything up to the save.
edit_profile_form(req, profs) ==
  IF ~is_authenticated(req.user) THEN DoneEdit(redirect_to_login)
  ELSE LET got == get_profile(req.user, profs)
       IN IF got.exc = "ObjectDoesNotExist"
          THEN DoneEdit(HttpResponseRedirect(reverse("profiles_create_profile", 0), FALSE))
          ELSE IF got.exc # "None" THEN DoneEdit(Raise(got.exc, FALSE))
          ELSE LET profile_obj == got.obj
                   success_url == IF req.success_url = NoURL
                                  THEN reverse("profiles_profile_detail", req.user)
                                  ELSE req.success_url
                   form_class == IF req.form_class = NoFormClass
                                 THEN del_base_field(form_for_instance(ModelFields), "user")
                                 ELSE req.form_class
               IN IF req.method = "POST"
                  THEN LET form == bound_form(form_class, req.POST, get_initial_data(profile_obj))
                       IN IF is_valid(form) THEN ProceedEdit(form, success_url, profile_obj)
                          ELSE DoneEdit(render_to_response("profiles/edit_profile.html", form, profile_obj, FALSE))
                  ELSE DoneEdit(render_to_response("profiles/edit_profile.html", unbound_form(form_class), profile_obj, FALSE))

\* Mutant: form.save() stores the changed profile as a new row.
edit_profile_save_as_new(req, form, success_url, profile_obj, profs) ==
  LET changed == [profile_obj EXCEPT !.bio = IF "bio" \in form.fields THEN form.data.bio ELSE @,
                                     !.groups = IF "groups" \in form.fields THEN form.data.groups ELSE @,
                                     !.id = next_pk(profs)]
  IN [response |-> HttpResponseRedirect(success_url, FALSE), profiles |-> profs \cup {changed}]

\* Lines 159-160: form.save() writes the form's fields to the profile the
\* view fetched, and the view redirects.
edit_profile_save(req, form, success_url, profile_obj, profs) ==
  LET changed == [profile_obj EXCEPT !.bio = IF "bio" \in form.fields THEN form.data.bio ELSE @,
                                     !.groups = IF "groups" \in form.fields THEN form.data.groups ELSE @,
                                     !.user = IF "user" \in form.fields THEN form.data.user ELSE @]
  IN [response |-> HttpResponseRedirect(success_url, FALSE), profiles |-> update(changed, profs)]

\* Mutant: a missing profile is answered with not-found, as profile_detail
\* does, instead of the redirect of line 149.
edit_profile_without_redirect(req, profs) ==
  LET pre == edit_profile_form(req, profs)
  IN IF is_authenticated(req.user) /\ get_profile(req.user, profs).exc = "ObjectDoesNotExist"
     THEN [response |-> Raise("Http404", FALSE), profiles |-> profs]
     ELSE IF pre.done THEN [response |-> pre.response, profiles |-> profs]
     ELSE edit_profile_save(req, pre.form, pre.success_url, pre.profile_obj, profs)

\* The whole view.
edit_profile(req, profs) ==
  LET pre == edit_profile_form(req, profs)
  IN IF pre.done THEN [response |-> pre.response, profiles |-> profs]
     ELSE edit_profile_save(req, pre.form, pre.success_url, pre.profile_obj, profs)

(***************************************************************************)
(* views.profile_detail                                                    *)
(***************************************************************************)
\* Mutant: a missing profile is answered with the redirect edit_profile
\* gives, instead of the Http404 of line 196.
profile_detail_redirecting(req, profs) ==
  LET found == get_user_or_404(req.username)
  IN IF found.exc # "None" THEN [response |-> Raise(found.exc, FALSE), profiles |-> profs]
     ELSE LET got == get_profile(found.user, profs)
          IN IF got.exc = "ObjectDoesNotExist"
             THEN [response |-> HttpResponseRedirect(reverse("profiles_create_profile", 0), FALSE), profiles |-> profs]
             ELSE IF got.exc # "None" THEN [response |-> Raise(got.exc, FALSE), profiles |-> profs]
             ELSE [response |-> render_to_response("profiles/profile_detail.html", NoForm, got.obj, FALSE),
                   profiles |-> profs]

profile_detail(req, profs) ==
  LET found == get_user_or_404(req.username)
  IN IF found.exc # "None" THEN [response |-> Raise(found.exc, FALSE), profiles |-> profs]
     ELSE LET got == get_profile(found.user, profs)
          IN IF got.exc = "ObjectDoesNotExist" THEN [response |-> Raise("Http404", FALSE), profiles |-> profs]
             ELSE IF got.exc # "None" THEN [response |-> Raise(got.exc, FALSE), profiles |-> profs]
             ELSE [response |-> render_to_response("profiles/profile_detail.html", NoForm, got.obj, FALSE),
                   profiles |-> profs]

(***************************************************************************)
(* Requests                                                                *)
(***************************************************************************)
Request(view, user, method, POST, form_class, success_url, username) ==
  [view |-> view, user |-> user, method |-> method, POST |-> POST, form_class |-> form_class,
   success_url |-> success_url, username |-> username]

NoRequest == Request("None", AnonymousUser, "GET", EmptyPOST, NoFormClass, NoURL, 0)

\* Requests to a form view: a GET, or a POST with any payload.
FormRequests(view) ==
  {Request(view, u, "GET", EmptyPOST, fc, su, 0) : u \in Users \cup {AnonymousUser}, fc \in FormClasses, su \in SuccessUrls}
  \cup
  {Request(view, x[1], "POST", x[2], fc, su, 0) : x \in (Users \cup {AnonymousUser}) \X Payloads, fc \in FormClasses, su \in SuccessUrls}

DetailRequests ==
  {Request("profile_detail", u, "GET", EmptyPOST, NoFormClass, NoURL, n) : u \in Users \cup {AnonymousUser}, n \in Usernames}

(***************************************************************************)
(* Spec: each request handled to completion                                *)
(***************************************************************************)
Idle == [stage |-> "idle", request |-> NoRequest, form |-> NoForm, success_url |-> NoURL, resolved |-> FALSE, profile_obj |-> NoObj]

Init ==
  /\ AUTH_PROFILE_MODULE \in Settings
  /\ userUnique \in BOOLEAN
  /\ profiles = {}
  /\ before = {}
  /\ request = NoRequest
  /\ response = NoResponse
  /\ inflight = [s \in 1..MaxInflight |-> Idle]

\* A worker takes a request when it holds none, runs the view on it and
\* keeps the request and the response until the response is sent.
Serve(req, result) ==
  /\ request' = req
  /\ response' = result.response
  /\ before' = profiles
  /\ profiles' = result.profiles
  /\ UNCHANGED <<AUTH_PROFILE_MODULE, userUnique>>

CreateProfile ==
  /\ request = NoRequest
  /\ \E req \in FormRequests("create_profile") : Serve(req, create_profile(req, profiles))
  /\ UNCHANGED inflight

EditProfile ==
  /\ request = NoRequest
  /\ \E req \in FormRequests("edit_profile") : Serve(req, edit_profile(req, profiles))
  /\ UNCHANGED inflight

ProfileDetail ==
  /\ request = NoRequest
  /\ \E req \in DetailRequests : Serve(req, profile_detail(req, profiles))
  /\ UNCHANGED inflight

\* The response is sent; request and response objects are dropped.
Respond ==
  /\ request # NoRequest
  /\ request' = NoRequest
  /\ response' = NoResponse
  /\ before' = profiles
  /\ UNCHANGED <<AUTH_PROFILE_MODULE, userUnique, profiles, inflight>>

Next == CreateProfile \/ EditProfile \/ ProfileDetail \/ Respond

Spec == Init /\ [][Next]_vars

(***************************************************************************)
(* SpecInterleaved: requests of several workers interleave between the     *)
(* validation and the save of a form view                                  *)
(***************************************************************************)
\* The requests the interleaved workers serve: logged-in users, the
\* default form class and success URL, payloads with the scalar field only.
InterleavedRequests(view) ==
  {r \in FormRequests(view) : /\ r.user \in Users
                              /\ r.form_class = NoFormClass
                              /\ r.success_url = NoURL
                              /\ r.POST.user = AnonymousUser
                              /\ r.POST.groups = {}}

Pending(stage, req, pre, resolved, obj) ==
  [stage |-> stage, request |-> req, form |-> pre.form, success_url |-> pre.success_url, resolved |-> resolved, profile_obj |-> obj]

\* The worker slot a new request takes.
FreeSlots == {s \in 1..MaxInflight : inflight[s].stage = "idle"}
FreeSlot == CHOOSE s \in FreeSlots : \A t \in FreeSlots : s <= t

\* A step of a view that ends the request (or suspends it before the save).
Step(req, resp, profs) ==
  /\ request' = req
  /\ response' = resp
  /\ before' = profiles
  /\ profiles' = profs
  /\ UNCHANGED <<AUTH_PROFILE_MODULE, userUnique>>

BeginCreate ==
  /\ request = NoRequest
  /\ FreeSlots # {}
  /\ \E req \in InterleavedRequests("create_profile") :
       LET pre == create_profile_form(req, profiles)
       IN /\ Step(req, pre.response, profiles)
          /\ inflight' = IF pre.done THEN inflight
                         ELSE [inflight EXCEPT ![FreeSlot] = Pending("create_save", req, pre, pre.resolved, NoObj)]

FinishCreate ==
  /\ request = NoRequest
  /\ \E s \in 1..MaxInflight :
       LET job == inflight[s]
           result == create_profile_save(job.request, job.form, job.success_url, job.resolved, profiles)
       IN /\ job.stage = "create_save"
          /\ Step(job.request, result.response, result.profiles)
          /\ inflight' = [inflight EXCEPT ![s] = Idle]

BeginEdit ==
  /\ request = NoRequest
  /\ FreeSlots # {}
  /\ \E req \in InterleavedRequests("edit_profile") :
       LET pre == edit_profile_form(req, profiles)
       IN /\ Step(req, pre.response, profiles)
          /\ inflight' = IF pre.done THEN inflight
                         ELSE [inflight EXCEPT ![FreeSlot] = Pending("edit_save", req, pre, FALSE, pre.profile_obj)]

FinishEdit ==
  /\ request = NoRequest
  /\ \E s \in 1..MaxInflight :
       LET job == inflight[s]
           result == edit_profile_save(job.request, job.form, job.success_url, job.profile_obj, profiles)
       IN /\ job.stage = "edit_save"
          /\ Step(job.request, result.response, result.profiles)
          /\ inflight' = [inflight EXCEPT ![s] = Idle]

NextInterleaved == BeginCreate \/ FinishCreate \/ BeginEdit \/ FinishEdit \/ ProfileDetail \/ Respond

SpecInterleaved == Init /\ [][NextInterleaved]_vars

(***************************************************************************)
(* Properties                                                              *)
(*                                                                         *)
(* After a view has served a request, request and response hold the        *)
(* request and its answer, before the rows the view found and profiles the *)
(* rows it left.                                                           *)
(***************************************************************************)
Served(view) == request.view = view /\ response # NoResponse
ByUser == is_authenticated(request.user)

\* The requesting user had a profile: the table held a row of the user.
RowsOf(user, profs) == {p \in profs : p.user = user}
HadProfile(user) == AUTH_PROFILE_MODULE = "valid" /\ RowsOf(user, before) # {}
\* The user had no profile: the profile model is installed and its table
\* held no row of the user (get_profile raises ObjectDoesNotExist).
HadNoProfile(user) == AUTH_PROFILE_MODULE = "valid" /\ RowsOf(user, before) = {}

\* The submitted data passes (fails) the form's checks.
ValidPOST == request.method = "POST" /\ request.POST.bio # Blank
InvalidPOST == request.method = "POST" /\ request.POST.bio = Blank

\* The success URL the request asks for.
ExpectedSuccessUrl ==
  IF request.success_url = NoURL THEN URL("profiles_profile_detail", request.user) ELSE request.success_url

\* C1: create_profile for a logged-in user who already has a profile
\* answers with a redirect to the edit-profile route, for GET and POST and
\* any payload, and leaves the profile table as it was.
C1_ExistingProfileRedirectsToEdit ==
  (Served("create_profile") /\ ByUser /\ HadProfile(request.user))
    => /\ response.kind = "redirect"
       /\ response.url = URL("profiles_edit_profile", 0)
       /\ profiles = before

C1_Witness ==
  /\ Served("create_profile") /\ ByUser /\ HadProfile(request.user)
  /\ ValidPOST
  /\ response.kind = "redirect"

\* C2: a valid POST to create_profile by a logged-in user without a
\* profile stores exactly one new profile, owned by the requesting user
\* (not by a user the payload names), and answers with a redirect to
\* success_url, or to the profile-detail route of the requesting user's
\* username when no success_url was given.
C2_ValidCreateStoresOwnProfile ==
  (Served("create_profile") /\ ByUser /\ HadNoProfile(request.user) /\ ValidPOST)
    => /\ \E p \in profiles : /\ p \notin before
                              /\ profiles = before \cup {p}
                              /\ p.user = request.user
                              /\ p.bio = request.POST.bio
                              /\ RowsOf(request.user, profiles) = {p}
       /\ Cardinality(profiles) = Cardinality(before) + 1
       /\ response.kind = "redirect"
       /\ response.url = ExpectedSuccessUrl

C2_Witness ==
  /\ Served("create_profile") /\ ByUser /\ HadNoProfile(request.user) /\ ValidPOST
  /\ request.POST.user \in Users \ {request.user}
  /\ request.success_url = NoURL
  /\ response.url = URL("profiles_profile_detail", request.user)
  /\ \E p \in profiles \ before : p.user = request.user

\* C3: an invalid POST that reaches the form of create_profile (a user
\* without a profile) or of edit_profile (a user with a profile) is
\* answered with the rendered form page, not a redirect; the form carries
\* the validation errors and the profile table is left as it was.
C3_InvalidPostRendersErrors ==
  (/\ ByUser /\ InvalidPOST
   /\ \/ Served("create_profile") /\ HadNoProfile(request.user)
      \/ Served("edit_profile") /\ HadProfile(request.user))
    => /\ response.kind = "render"
       /\ response.form.bound
       /\ response.form.errors # {}
       /\ profiles = before

C3_Witness ==
  /\ Served("edit_profile") /\ ByUser /\ HadProfile(request.user) /\ InvalidPOST
  /\ response.kind = "render" /\ "bio" \in response.form.errors

\* C4: edit_profile for a logged-in user without a profile answers with a
\* redirect to the create-profile route, whatever the method and payload,
\* and leaves the profile table as it was.
C4_EditWithoutProfileRedirectsToCreate ==
  (Served("edit_profile") /\ ByUser /\ HadNoProfile(request.user))
    => /\ response.kind = "redirect"
       /\ response.url = URL("profiles_create_profile", 0)
       /\ profiles = before

C4_Witness ==
  /\ Served("edit_profile") /\ ByUser /\ HadNoProfile(request.user) /\ ValidPOST
  /\ response.kind = "redirect"

\* C5: profile_detail renders the profile of the named user when the user
\* exists and has a profile; it answers not-found (404), never a redirect,
\* when no user has the username or the user has no profile; it does so
\* for anonymous requesters too and never changes the profile table.
C5_DetailRendersOr404 ==
  Served("profile_detail")
    => /\ profiles = before
       /\ response.kind # "redirect"
       /\ (request.username \in Users /\ HadProfile(request.username))
            => /\ response.kind = "render"
               /\ response.profile \in before
               /\ response.profile.user = request.username
       /\ (request.username \notin Users \/ HadNoProfile(request.username))
            => response.kind = "Http404"

C5_Witness ==
  /\ Served("profile_detail") /\ ~ByUser
  /\ request.username \in Users /\ HadProfile(request.username)
  /\ response.kind = "render"

\* C6: a GET to create_profile by a logged-in user without a profile
\* renders an empty, unbound form, is not a redirect, and stores nothing.
C6_GetCreateRendersEmptyForm ==
  (Served("create_profile") /\ ByUser /\ HadNoProfile(request.user) /\ request.method # "POST")
    => /\ response.kind = "render"
       /\ ~response.form.bound
       /\ response.form.data = EmptyPOST
       /\ response.form.errors = {}
       /\ response.form.fields # {}
       /\ profiles = before

C6_Witness ==
  /\ Served("create_profile") /\ ByUser /\ HadNoProfile(request.user) /\ request.method = "GET"
  /\ response.kind = "render"

\* C7: after any sequence of requests, also when the existence check and
\* the save of requests of one user interleave, every stored profile has
\* exactly one owning user and every user has at most one profile.
C7_OneProfilePerUser ==
  /\ \A p \in profiles : p.user \in Users
  /\ \A u \in Users : Cardinality(RowsOf(u, profiles)) <= 1

\* C8: a valid POST to edit_profile by a logged-in user with a profile
\* saves the existing profile in place (no row is added, the row keeps its
\* key and its owner) and answers with a redirect to success_url, or to
\* the profile-detail route of the requesting user's username when no
\* success_url was given.
C8_ValidEditSavesInPlace ==
  (Served("edit_profile") /\ ByUser /\ HadProfile(request.user) /\ ValidPOST)
    => /\ Cardinality(profiles) = Cardinality(before)
       /\ \E old \in before, new \in profiles :
            /\ old.user = request.user
            /\ new.id = old.id
            /\ new.user = request.user
            /\ new.bio = request.POST.bio
            /\ profiles = (before \ {old}) \cup {new}
       /\ response.kind = "redirect"
       /\ response.url = ExpectedSuccessUrl

C8_Witness ==
  /\ Served("edit_profile") /\ ByUser /\ HadProfile(request.user) /\ ValidPOST
  /\ profiles # before
  /\ response.kind = "redirect"

\* C9: profile_detail answers Http404 when no profile model is specified
\* in AUTH_PROFILE_MODULE; SiteProfileNotAvailable does not leave it.
C9_DetailUnconfigured404 ==
  (Served("profile_detail") /\ request.username \in Users /\ AUTH_PROFILE_MODULE # "valid")
    => /\ response.kind = "Http404"
       /\ response.exc # "SiteProfileNotAvailable"

\* C10 as stated: with a form_class passed and no profile of the user,
\* create_profile does not invoke the resolver, and a missing or
\* unresolvable setting does not end the request in
\* SiteProfileNotAvailable.
C10_ResolverOnlyWithoutFormClass ==
  (/\ Served("create_profile") /\ ByUser
   /\ request.form_class # NoFormClass
   /\ RowsOf(request.user, before) = {})
    => /\ ~response.resolved
       /\ response.exc # "SiteProfileNotAvailable"

\* C10 amended: create_profile invokes the resolver for every logged-in
\* user without a profile, whether or not a form_class was passed, and
\* with a missing or unresolvable setting the request ends in
\* SiteProfileNotAvailable whether or not a form_class was passed.
C10_ResolverAlwaysInvoked ==
  /\ (Served("create_profile") /\ ByUser /\ HadNoProfile(request.user))
       => response.resolved
  /\ (Served("create_profile") /\ ByUser /\ AUTH_PROFILE_MODULE # "valid")
       => /\ response.kind = "exception"
          /\ response.exc = "SiteProfileNotAvailable"
          /\ profiles = before

C10_Witness ==
  /\ Served("create_profile") /\ ByUser /\ HadNoProfile(request.user)
  /\ request.form_class # NoFormClass
  /\ response.resolved
  /\ response.kind = "render"

=============================================================================
